---- MODULE Spec2Model ----
(***************************************************************************)
(* A model of invisible-char-detector (src/src/main.rs).                   *)
(*                                                                         *)
(* Text is a sequence of Unicode scalar values (naturals); a path is a     *)
(* sequence of one-character strings.  The pure functions of the program   *)
(* (the classifier, the path filter, the scanner) are operators, and each  *)
(* has a specification that draws its inputs from bounded sets and applies *)
(* it; the collector (scan_files) and main are a state machine that        *)
(* processes one glob entry per step.                                      *)
(***************************************************************************)
EXTENDS Integers, Sequences, FiniteSets, TLC

VARIABLES
    \* ---- classifier harness (SpecClassify)
    code,            \* the u32 handed to the classifier
    cls,             \* the outcome of each rule, once run
    \* ---- path filter harness (SpecPath)
    path_parts,      \* the separator-free pieces the path is written from
    path_seps,       \* the separators between them
    path_flag,       \* the scan_bundles argument
    ignore_result,   \* should_ignore_path's result, once run
    \* ---- scanner harness (SpecScan)
    content,         \* the decoded text
    scan_result,     \* detect_invisible_characters' result, once run
    \* ---- the program: main and scan_files (Spec)
    args,            \* the command line
    glob_results,    \* what the glob iterator yields once the pattern has parsed
    pc,              \* where main is
    config,          \* ScanConfig, NoConfig before parse_args
    next_entry,      \* index of the next glob entry scan_files will take
    all_detections,  \* scan_files' aggregate
    scanned_count,
    skipped_count,
    scan_calls,      \* the paths handed to detect_invisible_characters, in order
    stdout,          \* what main printed, as events
    stderr,          \* what was written to stderr, as events
    exit_code        \* the process exit code, read once pc = "exited"

classify_vars == <<code, cls>>
path_vars     == <<path_parts, path_seps, path_flag, ignore_result>>
scan_vars     == <<content, scan_result>>
main_vars     == <<args, glob_results, pc, config, next_entry, all_detections,
                   scanned_count, skipped_count, scan_calls, stdout, stderr,
                   exit_code>>
vars          == <<classify_vars, path_vars, scan_vars, main_vars>>

-----------------------------------------------------------------------------
(* Bounds of the model.                                                    *)

\* Codes within Window of each boundary of the classifier are tried.
Window == 2
\* Longest text handed to the scanner harness.
MaxLen == 4
\* Most components of a path handed to the path filter harness.
MaxParts == 3
\* Most entries glob expansion yields.
MaxEntries == 2

-----------------------------------------------------------------------------
(* Small helpers on sequences.                                             *)

RECURSIVE Sum(_)
Sum(s) == IF s = <<>> THEN 0 ELSE Head(s) + Sum(Tail(s))

SeqsUpTo(S, n) == UNION {[1..m -> S] : m \in 0..n}

-----------------------------------------------------------------------------
(* The classifier.                                                         *)

LF  == \h0A
TAB == \h09
CR  == \h0D

\* HashMap<u32, (&str, &str)> built by get_suspicious_chars.
get_suspicious_chars ==
    (\h200B :> <<"ZERO WIDTH SPACE", "Invisible character used to hide code">>) @@
    (\h200C :> <<"ZERO WIDTH NON-JOINER", "Can alter code logic invisibly">>) @@
    (\h200D :> <<"ZERO WIDTH JOINER", "Can alter code logic invisibly">>) @@
    (\h2060 :> <<"WORD JOINER", "Invisible joiner; often used to hide payloads">>) @@
    (\hFEFF :> <<"ZERO WIDTH NO-BREAK SPACE", "BOM or invisible space">>) @@
    (\h202A :> <<"LEFT-TO-RIGHT EMBEDDING", "Bidi control; can mislead code review">>) @@
    (\h202B :> <<"RIGHT-TO-LEFT EMBEDDING", "Bidi control; can mislead code review">>) @@
    (\h202C :> <<"POP DIRECTIONAL FORMATTING", "Bidi control; terminates embeddings/overrides">>) @@
    (\h202D :> <<"LEFT-TO-RIGHT OVERRIDE", "Bidi override; can reorder displayed code">>) @@
    (\h202E :> <<"RIGHT-TO-LEFT OVERRIDE", "Bidi override; can reorder displayed code">>) @@
    (\h2066 :> <<"LEFT-TO-RIGHT ISOLATE", "Bidi isolate; can affect display order">>) @@
    (\h2067 :> <<"RIGHT-TO-LEFT ISOLATE", "Bidi isolate; can affect display order">>) @@
    (\h2068 :> <<"FIRST STRONG ISOLATE", "Bidi isolate; can affect display order">>) @@
    (\h2069 :> <<"POP DIRECTIONAL ISOLATE", "Bidi isolate terminator">>) @@
    (\h200E :> <<"LEFT-TO-RIGHT MARK", "Invisible directional marker">>) @@
    (\h200F :> <<"RIGHT-TO-LEFT MARK", "Invisible directional marker">>) @@
    (\h061C :> <<"ARABIC LETTER MARK", "Invisible directional marker">>) @@
    (\hFE00 :> <<"VARIATION SELECTOR-0", "Can modify character appearance">>) @@
    (\hFE01 :> <<"VARIATION SELECTOR-1", "Can modify character appearance">>) @@
    (\hFE02 :> <<"VARIATION SELECTOR-2", "Can modify character appearance">>) @@
    (\hFE03 :> <<"VARIATION SELECTOR-3", "Can modify character appearance">>) @@
    (\hFE04 :> <<"VARIATION SELECTOR-4", "Can modify character appearance">>) @@
    (\hFE05 :> <<"VARIATION SELECTOR-5", "Can modify character appearance">>) @@
    (\hFE06 :> <<"VARIATION SELECTOR-6", "Can modify character appearance">>) @@
    (\hFE07 :> <<"VARIATION SELECTOR-7", "Can modify character appearance">>) @@
    (\hFE08 :> <<"VARIATION SELECTOR-8", "Can modify character appearance">>) @@
    (\hFE09 :> <<"VARIATION SELECTOR-9", "Can modify character appearance">>) @@
    (\hFE0A :> <<"VARIATION SELECTOR-10", "Can modify character appearance">>) @@
    (\hFE0B :> <<"VARIATION SELECTOR-11", "Can modify character appearance">>) @@
    (\hFE0C :> <<"VARIATION SELECTOR-12", "Can modify character appearance">>) @@
    (\hFE0D :> <<"VARIATION SELECTOR-13", "Can modify character appearance">>) @@
    (\hFE0E :> <<"VARIATION SELECTOR-14", "Can modify character appearance">>) @@
    (\hFE0F :> <<"VARIATION SELECTOR-15", "Can modify character appearance">>) @@
    (\h2028 :> <<"LINE SEPARATOR", "Can break parsing/tokenization">>) @@
    (\h2029 :> <<"PARAGRAPH SEPARATOR", "Can break parsing/tokenization">>) @@
    (\h3164 :> <<"HANGUL FILLER", "Often renders as blank; used for obfuscation">>) @@
    (\h00AD :> <<"SOFT HYPHEN", "Invisible in most contexts; used for obfuscation">>) @@
    (\h00A0 :> <<"NO-BREAK SPACE", "Non-ASCII whitespace; may bypass naive filters">>) @@
    (\h202F :> <<"NARROW NO-BREAK SPACE", "Non-ASCII whitespace; may bypass naive filters">>) @@
    (\h2007 :> <<"FIGURE SPACE", "Non-ASCII whitespace; may bypass naive filters">>)

\* The comparisons of is_private_use_area, as written.
is_private_use_area(c) ==
    \/ (c >= \hE000 /\ c <= \hF8FF)
    \/ (c >= \hF0000 /\ c <= \hFFFD)
    \/ (c >= \h100000 /\ c <= \h10FFFD)

is_suspicious_control_char(c) ==
    \/ (c <= \h001F /\ c # \h0009 /\ c # \h000A /\ c # \h000D)
    \/ (c >= \h007F /\ c <= \h009F)

\* format!("{:X}", n): the uppercase hexadecimal digits of n.
HexDigit(d) ==
    <<"0", "1", "2", "3", "4", "5", "6", "7",
      "8", "9", "A", "B", "C", "D", "E", "F">>[d + 1]

RECURSIVE UpperHex(_)
UpperHex(n) ==
    IF n < 16 THEN <<HexDigit(n)>>
    ELSE Append(UpperHex(n \div 16), HexDigit(n % 16))

\* format!("{:04X}", n): zero-padded on the left to at least four digits.
RECURSIVE PadLeft(_, _)
PadLeft(s, width) == IF Len(s) >= width THEN s ELSE PadLeft(<<"0">> \o s, width)

UpperHex04(n) == PadLeft(UpperHex(n), 4)

NotSuspicious == [flagged |-> FALSE, name |-> "", description |-> <<>>]

\* The if / else-if chain of detect_invisible_characters that picks
\* (name, description), or `continue`s (flagged = FALSE).  A description is
\* the sequence of the pieces format! puts together.
Classify(c) ==
    LET suspicious == get_suspicious_chars IN
    IF c \in DOMAIN suspicious
    THEN [flagged |-> TRUE, name |-> suspicious[c][1],
          description |-> <<suspicious[c][2]>>]
    ELSE IF is_private_use_area(c)
    THEN [flagged |-> TRUE, name |-> "PRIVATE USE AREA",
          description |-> <<"Private use character (U+">> \o UpperHex04(c)
                          \o <<") - commonly used for payload hiding">>]
    ELSE IF is_suspicious_control_char(c)
    THEN [flagged |-> TRUE, name |-> "CONTROL CHARACTER",
          description |-> <<"Suspicious control character (U+">> \o UpperHex04(c)
                          \o <<")">>]
    ELSE NotSuspicious

-----------------------------------------------------------------------------
(* The scanner.                                                            *)

\* char::len_utf8, which decides the byte indices char_indices() yields.
len_utf8(c) ==
    IF c < \h80 THEN 1
    ELSE IF c < \h800 THEN 2
    ELSE IF c < \h10000 THEN 3
    ELSE 4

\* The byte index char_indices() yields with a character: the encoded
\* lengths of the characters before it, summed.  The counting mutant numbers
\* characters instead of bytes.
next_byte_index_counting_chars(byte_i, ch) == byte_i + 1

next_byte_index(byte_i, ch) == byte_i + len_utf8(ch)

\* The Detection pushed for character ch at byte index byte_i.  The zero-based
\* mutant forgets the + 1 of byte_offset.
new_detection_zero_based(file_path, line, byte_i, char_index, ch, c) ==
    [file |-> file_path,
     line |-> line,
     byte_offset |-> byte_i,
     char_index |-> char_index,
     char |-> <<ch>>,
     code |-> ch,
     name |-> c.name,
     description |-> c.description]

new_detection(file_path, line, byte_i, char_index, ch, c) ==
    [file |-> file_path,
     line |-> line,
     byte_offset |-> byte_i + 1,
     char_index |-> char_index,
     char |-> <<ch>>,
     code |-> ch,
     name |-> c.name,
     description |-> c.description]

\* One iteration of the for loop per call: k is the position of the character,
\* byte_i its byte index, and line / char_index / detections the loop's locals.
RECURSIVE DetectLoop(_, _, _, _, _, _, _)
DetectLoop(text, file_path, k, byte_i, line, char_index, detections) ==
    IF k > Len(text) THEN detections
    ELSE
        LET ch == text[k]
            next_i == next_byte_index(byte_i, ch)
        IN  IF ch = LF
            THEN DetectLoop(text, file_path, k + 1, next_i, line + 1, 0, detections)
            ELSE
                LET ci == char_index + 1
                    c == Classify(ch)
                IN  IF ~c.flagged
                    THEN DetectLoop(text, file_path, k + 1, next_i, line, ci, detections)
                    ELSE DetectLoop(text, file_path, k + 1, next_i, line, ci,
                            Append(detections,
                                   new_detection(file_path, line, byte_i, ci, ch, c)))

detect_invisible_characters(text, file_path) ==
    DetectLoop(text, file_path, 1, 0, 1, 0, <<>>)

-----------------------------------------------------------------------------
(* The path filter.                                                        *)

node_modules == <<"n", "o", "d", "e", "_", "m", "o", "d", "u", "l", "e", "s">>
dot_git      == <<".", "g", "i", "t">>
dot_cargo    == <<".", "c", "a", "r", "g", "o">>
target       == <<"t", "a", "r", "g", "e", "t">>
dot_vscode   == <<".", "v", "s", "c", "o", "d", "e">>
dist         == <<"d", "i", "s", "t">>
build        == <<"b", "u", "i", "l", "d">>
out          == <<"o", "u", "t">>
dot_next     == <<".", "n", "e", "x", "t">>
dot_nuxt     == <<".", "n", "u", "x", "t">>

\* The mutant matches a component that contains "dist" as well.
is_bundle_component_substring(component) ==
    \/ component \in {dist, build, out, dot_next, dot_nuxt}
    \/ \E i \in 1..Len(component) :
            i + 3 <= Len(component) /\ SubSeq(component, i, i + 3) = dist

\* matches!(component, "node_modules" | ".git" | ".cargo" | "target" | ".vscode")
is_ignored_component(component) ==
    component \in {node_modules, dot_git, dot_cargo, target, dot_vscode}

\* matches!(*component, "dist" | "build" | "out" | ".next" | ".nuxt")
is_bundle_component(component) ==
    component \in {dist, build, out, dot_next, dot_nuxt}

\* The closure given to split: |c| c == '/' || c == '\\'.
is_separator(c) == c = "/" \/ c = "\\"

\* str::split: the pieces between separators, empty pieces included; `piece`
\* is the piece being read and `pieces` those already closed.
RECURSIVE SplitLoop(_, _, _, _)
SplitLoop(path, k, piece, pieces) ==
    IF k > Len(path) THEN Append(pieces, piece)
    ELSE IF is_separator(path[k])
         THEN SplitLoop(path, k + 1, <<>>, Append(pieces, piece))
         ELSE SplitLoop(path, k + 1, Append(piece, path[k]), pieces)

split_components(path) == SplitLoop(path, 1, <<>>, <<>>)

should_ignore_path(path, scan_bundles) ==
    LET components == split_components(path) IN
    IF \E i \in 1..Len(components) : is_ignored_component(components[i])
    THEN TRUE
    ELSE IF ~scan_bundles
              /\ \E i \in 1..Len(components) : is_bundle_component(components[i])
         THEN TRUE
         ELSE FALSE

-----------------------------------------------------------------------------
(* Harness of the classifier: one u32 in, the outcome of each rule out.    *)

ClassifierBoundaries ==
    {\h00, \h09, \h0A, \h0D, \h1F, \h7F, \h9F, \hAD, \h061C, \h2007, \h200B,
     \h202A, \h2060, \h2069, \h3164, \hDFFF, \hE000, \hF8FF, \hFE00, \hFE0F,
     \hFEFF, \hFFFD, \hF0000, \hFFFFD, \h100000, \h10FFFD}

CodeInputs ==
    {c \in UNION {(b - Window)..(b + Window) : b \in ClassifierBoundaries} :
        c >= 0 /\ c <= \h10FFFF}

\* A char is a Unicode scalar value: no surrogate reaches the scanner.
IsScalarValue(c) == c >= 0 /\ c <= \h10FFFF /\ ~(c >= \hD800 /\ c <= \hDFFF)

ClsNotRun ==
    [predicates |-> FALSE, chain |-> FALSE, pua |-> FALSE, control |-> FALSE,
     class |-> NotSuspicious]

ClassifyInit == code \in CodeInputs /\ cls = ClsNotRun
ClassifyIdle == code = 0 /\ cls = ClsNotRun

\* is_private_use_area(code) and is_suspicious_control_char(code) are called.
RunPredicates ==
    /\ ~cls.predicates
    /\ cls' = [cls EXCEPT !.predicates = TRUE,
                          !.pua = is_private_use_area(code),
                          !.control = is_suspicious_control_char(code)]
    /\ UNCHANGED <<code, path_vars, scan_vars, main_vars>>

\* The scanner's chain is applied to a character whose scalar value is code.
RunChain ==
    /\ ~cls.chain
    /\ IsScalarValue(code)
    /\ cls' = [cls EXCEPT !.chain = TRUE, !.class = Classify(code)]
    /\ UNCHANGED <<code, path_vars, scan_vars, main_vars>>

-----------------------------------------------------------------------------
(* Harness of the path filter.                                             *)

my_dist_thing == <<"m", "y", "-", "d", "i", "s", "t", "-", "t", "h", "i", "n", "g">>
src_dir       == <<"s", "r", "c">>
x_js          == <<"x", ".", "j", "s">>

\* Separator-free pieces paths are written from.
PathPieces ==
    {node_modules, dot_git, dot_cargo, target, dot_vscode,
     dist, build, out, dot_next, dot_nuxt,
     my_dist_thing, src_dir, x_js, <<>>}

RECURSIVE JoinFrom(_, _, _)
JoinFrom(parts, seps, k) ==
    IF k > Len(parts) THEN <<>>
    ELSE (IF k = 1 THEN <<>> ELSE <<seps[k - 1]>>) \o parts[k]
         \o JoinFrom(parts, seps, k + 1)

\* The path string: the pieces with the separators between them.
PathOf(parts, seps) == JoinFrom(parts, seps, 1)

IgnoreNotRun == [ran |-> FALSE, value |-> FALSE]

\* Every piece is tried in the short paths, these in the longer ones too.
CorePieces == {node_modules, dist, my_dist_thing, src_dir, x_js, <<>>}

PathInit ==
    /\ path_parts \in (SeqsUpTo(PathPieces, 2) \cup SeqsUpTo(CorePieces, MaxParts))
                       \ {<<>>}
    /\ path_seps \in [1..(Len(path_parts) - 1) -> {"/", "\\"}]
    /\ path_flag \in BOOLEAN
    /\ ignore_result = IgnoreNotRun

PathIdle ==
    /\ path_parts = <<>>
    /\ path_seps = <<>>
    /\ path_flag = FALSE
    /\ ignore_result = IgnoreNotRun

RunShouldIgnorePath ==
    /\ ~ignore_result.ran
    /\ ignore_result' =
           [ran |-> TRUE,
            value |-> should_ignore_path(PathOf(path_parts, path_seps), path_flag)]
    /\ UNCHANGED <<path_parts, path_seps, path_flag, classify_vars, scan_vars,
                   main_vars>>

\* The same path is filtered again with the other value of scan_bundles.
FlipScanBundles ==
    /\ ignore_result.ran
    /\ path_flag' = ~path_flag
    /\ ignore_result' =
           [ran |-> TRUE,
            value |-> should_ignore_path(PathOf(path_parts, path_seps), ~path_flag)]
    /\ UNCHANGED <<path_parts, path_seps, classify_vars, scan_vars, main_vars>>

-----------------------------------------------------------------------------
(* Harness of the scanner.                                                 *)

\* 'a', TAB, LF, CR, BEL (a C0 control), NO-BREAK SPACE (2 bytes, in the
\* table), ZERO WIDTH SPACE (3 bytes, in the table), U+E000 (3 bytes, private
\* use) and U+F0000 (4 bytes).
Alphabet == {\h61, TAB, LF, CR, \h07, \hA0, \h200B, \hE000, \hF0000}

HarnessPath == <<"f", ".", "r", "s">>

ScanNotRun == [ran |-> FALSE, detections |-> <<>>]

ScanInit == content \in SeqsUpTo(Alphabet, MaxLen) /\ scan_result = ScanNotRun
ScanIdle == content = <<>> /\ scan_result = ScanNotRun

RunDetect ==
    /\ ~scan_result.ran
    /\ scan_result' =
           [ran |-> TRUE,
            detections |-> detect_invisible_characters(content, HarnessPath)]
    /\ UNCHANGED <<content, classify_vars, path_vars, main_vars>>

-----------------------------------------------------------------------------
(* The program: main, parse_args and scan_files.                           *)

Program     == "invisible-char-detector"
GoodPattern == "**/*.rs"
\* An unclosed character class: glob() rejects it.
BadPattern  == "["

Flags == <<"--json", "-v", "--verbose", "--fail-on-skip", "--scan-bundles">>

\* The flags of F, in the order of Flags.
FlagArgs(F) == SelectSeq(Flags, LAMBDA f : f \in F)

ArgLists ==
    {<<Program>>}
    \cup {<<Program, first>> \o FlagArgs(F) :
            first \in {"--help", "-h", GoodPattern, BadPattern},
            F \in SUBSET {"--json", "--verbose", "--fail-on-skip", "--scan-bundles"}}
    \cup {<<Program, GoodPattern, "-v">>}

NoConfig ==
    [parsed |-> FALSE, pattern |-> "", json_output |-> FALSE, verbose |-> FALSE,
     fail_on_skip |-> FALSE, scan_bundles |-> FALSE]

\* args.iter().any(|a| a == x)
AnyArg(a, x) == \E i \in 1..Len(a) : a[i] = x

\* parse_args: NoConfig stands for None.
parse_args(a) ==
    IF Len(a) < 2 THEN NoConfig
    ELSE IF a[2] = "--help" \/ a[2] = "-h" THEN NoConfig
    ELSE [parsed |-> TRUE,
          pattern |-> a[2],
          json_output |-> AnyArg(a, "--json"),
          verbose |-> AnyArg(a, "--verbose") \/ AnyArg(a, "-v"),
          fail_on_skip |-> AnyArg(a, "--fail-on-skip"),
          scan_bundles |-> AnyArg(a, "--scan-bundles")]

\* Whether glob(&config.pattern) returns Ok.
glob_parses(pattern) == pattern # BadPattern

\* The file system under the pattern.  A glob entry is Err (a directory that
\* could not be read while walking) or Ok(path); read_to_string of a path
\* gives its text or fails (unreadable, or not UTF-8).
a_rs == <<"a", ".", "r", "s">>
b_rs == <<"b", ".", "r", "s">>

MainPaths ==
    {PathOf(<<src_dir, a_rs>>, <<"/">>),
     PathOf(<<dist, b_rs>>, <<"/">>),
     PathOf(<<src_dir, dot_git, b_rs>>, <<"\\", "\\">>)}

\* "a" and "a<RLO>\n<ZWSP>".
FileTexts == {<<\h61>>, <<\h61, \h202E, LF, \h200B>>}

GlobErr == [ok |-> FALSE, path |-> <<>>, readable |-> FALSE, text |-> <<>>]

GlobEntries ==
    {GlobErr}
    \cup {[ok |-> TRUE, path |-> p, readable |-> TRUE, text |-> t] :
            p \in MainPaths, t \in FileTexts}
    \cup {[ok |-> TRUE, path |-> p, readable |-> FALSE, text |-> <<>>] :
            p \in MainPaths}

\* Glob expansion yields each path once.
DistinctPaths(g) ==
    \A i, j \in 1..Len(g) : (i # j /\ g[i].ok /\ g[j].ok) => g[i].path # g[j].path

MainInit ==
    /\ args \in ArgLists
    /\ glob_results \in SeqsUpTo(GlobEntries, MaxEntries)
    /\ DistinctPaths(glob_results)
    /\ pc = "start"
    /\ config = NoConfig
    /\ next_entry = 1
    /\ all_detections = <<>>
    /\ scanned_count = 0
    /\ skipped_count = 0
    /\ scan_calls = <<>>
    /\ stdout = <<>>
    /\ stderr = <<>>
    /\ exit_code = 0

MainIdle ==
    /\ args = <<Program>>
    /\ glob_results = <<>>
    /\ pc = "idle"
    /\ config = NoConfig
    /\ next_entry = 1
    /\ all_detections = <<>>
    /\ scanned_count = 0
    /\ skipped_count = 0
    /\ scan_calls = <<>>
    /\ stdout = <<>>
    /\ stderr = <<>>
    /\ exit_code = 0

\* A line written to stdout or stderr: what it is and the numbers or the path
\* in it; the rest of its text is not modelled.
Event(kind, what) == [kind |-> kind, what |-> what]

\* main, to the call of scan_files: no config prints the help and exits 0.
MainParseArgs ==
    /\ pc = "start"
    /\ LET cfg == parse_args(args) IN
       IF ~cfg.parsed
       THEN /\ stdout' = Append(stdout, Event("help", <<>>))
            /\ exit_code' = 0
            /\ pc' = "exited"
            /\ UNCHANGED config
       ELSE /\ config' = cfg
            /\ stdout' = stdout \o <<Event("scanning", <<>>)>>
                         \o (IF cfg.verbose THEN <<Event("options", <<>>)>> ELSE <<>>)
            /\ pc' = "glob"
            /\ UNCHANGED exit_code
    /\ UNCHANGED <<args, glob_results, next_entry, all_detections, scanned_count,
                   skipped_count, scan_calls, stderr>>
    /\ UNCHANGED <<classify_vars, path_vars, scan_vars>>

\* scan_files, to its loop: a malformed pattern is returned as Err by `?`,
\* and main prints it and exits 2.
ScanFilesGlob ==
    /\ pc = "glob"
    /\ IF ~glob_parses(config.pattern)
       THEN /\ stderr' = Append(stderr, Event("error scanning files", <<>>))
            /\ exit_code' = 2
            /\ pc' = "exited"
       ELSE /\ pc' = "loop"
            /\ UNCHANGED <<stderr, exit_code>>
    /\ next_entry' = 1
    /\ all_detections' = <<>>
    /\ scanned_count' = 0
    /\ skipped_count' = 0
    /\ UNCHANGED <<args, glob_results, config, scan_calls, stdout>>
    /\ UNCHANGED <<classify_vars, path_vars, scan_vars>>

\* The locals of scan_files and what it has written, as one record.
LoopState ==
    [all_detections |-> all_detections, scanned_count |-> scanned_count,
     skipped_count |-> skipped_count, scan_calls |-> scan_calls,
     stderr |-> stderr]

\* The `if should_ignore_path(..)` block: count the skip, log it, continue.
on_ignored(st, cfg, path) ==
    [st EXCEPT !.skipped_count = @ + 1,
               !.stderr = IF cfg.verbose
                          THEN Append(@, Event("ignored", path))
                          ELSE @]

\* The Ok arm of the read.  The mutant assigns the file's detections to the
\* aggregate instead of extending it.
on_read_ok_overwrite(st, text, path) ==
    [st EXCEPT !.all_detections = detect_invisible_characters(text, path),
               !.scan_calls = Append(@, path)]

on_read_ok(st, text, path) ==
    [st EXCEPT !.all_detections = @ \o detect_invisible_characters(text, path),
               !.scan_calls = Append(@, path)]

\* The Err arm of the read.  The mutant leaves the skip uncounted.
on_read_err_uncounted(st, cfg, path) ==
    [st EXCEPT !.stderr = IF cfg.verbose
                          THEN Append(@, Event("could not read", path))
                          ELSE @]

on_read_err(st, cfg, path) ==
    [st EXCEPT !.skipped_count = @ + 1,
               !.stderr = IF cfg.verbose
                          THEN Append(@, Event("could not read", path))
                          ELSE @]

\* The body of the loop for one Ok(path) entry.
scan_entry(st, cfg, entry) ==
    IF should_ignore_path(entry.path, cfg.scan_bundles)
    THEN on_ignored(st, cfg, entry.path)
    ELSE LET counted == [st EXCEPT !.scanned_count = @ + 1] IN
         IF entry.readable
         THEN on_read_ok(counted, entry.text, entry.path)
         ELSE on_read_err(counted, cfg, entry.path)

\* One iteration of `for entry in glob_results.flatten()`, flatten's dropping
\* of an Err entry included.
ScanFilesEntry ==
    /\ pc = "loop"
    /\ next_entry <= Len(glob_results)
    /\ LET entry == glob_results[next_entry]
           st == IF entry.ok THEN scan_entry(LoopState, config, entry)
                 ELSE LoopState
       IN  /\ all_detections' = st.all_detections
           /\ scanned_count' = st.scanned_count
           /\ skipped_count' = st.skipped_count
           /\ scan_calls' = st.scan_calls
           /\ stderr' = st.stderr
    /\ next_entry' = next_entry + 1
    /\ UNCHANGED <<args, glob_results, pc, config, stdout, exit_code>>
    /\ UNCHANGED <<classify_vars, path_vars, scan_vars>>

\* `scanned_count == 0 && skipped_count == 0`.  The mutant looks at the
\* scanned counter alone.
no_files_matched_scanned_only(scanned, skipped) == scanned = 0

no_files_matched(scanned, skipped) == scanned = 0 /\ skipped = 0

\* The end of scan_files: the "No files matched" line, and Ok(..) to main.
ScanFilesReturn ==
    /\ pc = "loop"
    /\ next_entry > Len(glob_results)
    /\ stderr' = IF no_files_matched(scanned_count, skipped_count)
                 THEN Append(stderr, Event("no files matched", <<>>))
                 ELSE stderr
    /\ pc' = "report"
    /\ UNCHANGED <<args, glob_results, config, next_entry, all_detections,
                   scanned_count, skipped_count, scan_calls, stdout, exit_code>>
    /\ UNCHANGED <<classify_vars, path_vars, scan_vars>>

\* format_text_output, by its first line: the count it reports, 0 standing
\* for "No suspicious invisible characters detected."
format_text_output(detections) == Event("text", <<Len(detections)>>)

\* `config.fail_on_skip && skipped > 0`.  The mutant forgets to look at the
\* counter.
strict_failure_any(cfg, skipped) == cfg.fail_on_skip

strict_failure(cfg, skipped) == cfg.fail_on_skip /\ skipped > 0

\* What main prints after scan_files: the counts when verbose, then the
\* detections as JSON or as text.
report_lines(cfg, detections, scanned, skipped) ==
    (IF cfg.verbose THEN <<Event("counts", <<scanned, skipped>>)>> ELSE <<>>)
    \o (IF cfg.json_output
        THEN <<Event("json", <<Len(detections)>>)>>
        ELSE <<format_text_output(detections)>>)

\* The mutant makes the strict-mode check before anything is printed.
MainReport_strict_first ==
    /\ pc = "report"
    /\ IF strict_failure(config, skipped_count)
       THEN /\ stderr' = Append(stderr, Event("files were skipped", <<skipped_count>>))
            /\ exit_code' = 2
            /\ pc' = "exited"
            /\ UNCHANGED stdout
       ELSE /\ stdout' = stdout \o report_lines(config, all_detections,
                                                scanned_count, skipped_count)
            /\ pc' = "strict"
            /\ UNCHANGED <<stderr, exit_code>>
    /\ UNCHANGED <<args, glob_results, config, next_entry, all_detections,
                   scanned_count, skipped_count, scan_calls>>
    /\ UNCHANGED <<classify_vars, path_vars, scan_vars>>

\* main, from scan_files' Ok to the rendering.  serde_json writes a Vec of
\* structs of strings and integers into a String, which has no failing case,
\* so the Err arm of to_string_pretty is not taken.
MainReport ==
    /\ pc = "report"
    /\ stdout' = stdout \o report_lines(config, all_detections,
                                        scanned_count, skipped_count)
    /\ pc' = "strict"
    /\ UNCHANGED <<args, glob_results, config, next_entry, all_detections,
                   scanned_count, skipped_count, scan_calls, stderr, exit_code>>
    /\ UNCHANGED <<classify_vars, path_vars, scan_vars>>

\* The end of main: strict mode first, then the detections; falling off the
\* end of main is exit code 0.
MainExit ==
    /\ pc = "strict"
    /\ IF strict_failure(config, skipped_count)
       THEN /\ stderr' = Append(stderr, Event("files were skipped", <<skipped_count>>))
            /\ exit_code' = 2
       ELSE IF all_detections # <<>>
       THEN /\ exit_code' = 1
            /\ UNCHANGED stderr
       ELSE /\ exit_code' = 0
            /\ UNCHANGED stderr
    /\ pc' = "exited"
    /\ UNCHANGED <<args, glob_results, config, next_entry, all_detections,
                   scanned_count, skipped_count, scan_calls, stdout>>
    /\ UNCHANGED <<classify_vars, path_vars, scan_vars>>

-----------------------------------------------------------------------------
(* The specifications.                                                     *)

Init == ClassifyIdle /\ PathIdle /\ ScanIdle /\ MainInit

Next ==
    \/ MainParseArgs
    \/ ScanFilesGlob
    \/ ScanFilesEntry
    \/ ScanFilesReturn
    \/ MainReport
    \/ MainExit

Spec == Init /\ [][Next]_vars

ClassifyNext == RunPredicates \/ RunChain

ClassifyHarnessInit == ClassifyInit /\ PathIdle /\ ScanIdle /\ MainIdle

SpecClassify == ClassifyHarnessInit /\ [][ClassifyNext]_vars

PathNext == RunShouldIgnorePath \/ FlipScanBundles

PathHarnessInit == ClassifyIdle /\ PathInit /\ ScanIdle /\ MainIdle

SpecPath == PathHarnessInit /\ [][PathNext]_vars

ScanNext == RunDetect

ScanHarnessInit == ClassifyIdle /\ PathIdle /\ ScanInit /\ MainIdle

SpecScan == ScanHarnessInit /\ [][ScanNext]_vars

-----------------------------------------------------------------------------
(* Claims about the scanner, under SpecScan.                               *)

\* The UTF-8 encoded length of a scalar value, from the encoding's ranges.
EncodedLength(c) ==
    IF c \in 0..\h7F THEN 1
    ELSE IF c \in \h80..\h7FF THEN 2
    ELSE IF c \in \h800..\hFFFF THEN 3
    ELSE 4

\* 1 + the encoded lengths of the characters before position k.
ByteOffsetAt(text, k) == 1 + Sum([j \in 1..(k - 1) |-> EncodedLength(text[j])])

\* 1 + the number of '\n' before position k.
LineAt(text, k) == 1 + Cardinality({j \in 1..(k - 1) : text[j] = LF})

\* The position of the most recent '\n' before position k, 0 if there is none.
LastNewlineBefore(text, k) ==
    LET nl == {j \in 1..(k - 1) : text[j] = LF}
    IN  IF nl = {} THEN 0 ELSE CHOOSE j \in nl : \A i \in nl : i <= j

\* The characters after the most recent '\n', up to and including position k.
CharIndexAt(text, k) == k - LastNewlineBefore(text, k)

\* C1: every detection emitted for the character at position k of the text
\* has line = 1 + the number of '\n' before k, char_index = the number of
\* characters after the most recent '\n' up to and including k, and
\* byte_offset = 1 + the UTF-8 lengths of the characters before k; '\r' is an
\* ordinary character and the first character after '\n' has char_index 1.
C1_Coordinates ==
    scan_result.ran =>
        \A i \in 1..Len(scan_result.detections) :
            LET d == scan_result.detections[i] IN
            \E k \in 1..Len(content) :
                /\ content[k] = d.code
                /\ d.byte_offset = ByteOffsetAt(content, k)
                /\ d.line = LineAt(content, k)
                /\ d.char_index = CharIndexAt(content, k)
                /\ (k > 1 /\ content[k - 1] = LF => d.char_index = 1)

\* A detection on line 2 at char_index 1 whose byte offset exceeds its
\* character position (a multi-byte character precedes it), and a detection
\* that follows a '\r' on its line.
C1_Witness ==
    /\ scan_result.ran
    /\ \E i \in 1..Len(scan_result.detections) :
            LET d == scan_result.detections[i] IN
            d.line = 2 /\ d.char_index = 1 /\ d.byte_offset > 3
    /\ \E i \in 1..Len(scan_result.detections) :
            LET d == scan_result.detections[i] IN
            d.line = 1 /\ d.char_index = 2 /\ content[1] = CR

\* The three sets of scalar values the claim names: the table, the Unicode
\* private-use blocks (U+E000..U+F8FF and planes 15 and 16 less their last two
\* code points) and the control ranges.
TableCodes == DOMAIN get_suspicious_chars

InPrivateUseBlocks(c) ==
    c \in \hE000..\hF8FF \/ c \in \hF0000..\hFFFFD \/ c \in \h100000..\h10FFFD

InControlRanges(c) ==
    (c \in 0..\h1F /\ c \notin {\h09, \h0A, \h0D}) \/ c \in \h7F..\h9F

Reported(c) ==
    c # LF /\ (c \in TableCodes \/ InPrivateUseBlocks(c) \/ InControlRanges(c))

ExpectedName(c) ==
    IF c \in TableCodes THEN get_suspicious_chars[c][1]
    ELSE IF InPrivateUseBlocks(c) THEN "PRIVATE USE AREA"
    ELSE "CONTROL CHARACTER"

\* The positions of the text that hold a reported character, in file order.
ReportedPositions(text) ==
    SelectSeq([k \in 1..Len(text) |-> k], LAMBDA k : Reported(text[k]))

\* C2: exactly one detection per occurrence of a character other than '\n'
\* that is in the table, a private-use range or a control range, in file order
\* with nothing merged; never one for '\t', '\n', '\r' or any other character;
\* the name is the table's, else PRIVATE USE AREA, else CONTROL CHARACTER.
C2_OnePerOccurrence ==
    scan_result.ran =>
        LET dets == scan_result.detections
            pos == ReportedPositions(content)
        IN  /\ Len(dets) = Len(pos)
            /\ \A i \in 1..Len(dets) :
                    /\ dets[i].code = content[pos[i]]
                    /\ dets[i].byte_offset = ByteOffsetAt(content, pos[i])
                    /\ dets[i].name = ExpectedName(content[pos[i]])
                    /\ dets[i].code \notin {TAB, LF, CR}

\* What is left of C2 for the texts that hold no character of plane 15's
\* private-use block, the block is_private_use_area's second comparison
\* misses.
C2_OutsidePlane15 ==
    (\A k \in 1..Len(content) : content[k] \notin \hF0000..\hFFFFD)
        => C2_OnePerOccurrence

\* C6: in the sequence returned by one call, every detection has line,
\* char_index and byte_offset >= 1, byte_offset strictly increases from each
\* detection to the next, and line never decreases.
C6_Ordered ==
    scan_result.ran =>
        LET dets == scan_result.detections IN
        /\ \A i \in 1..Len(dets) :
                dets[i].line >= 1 /\ dets[i].char_index >= 1 /\ dets[i].byte_offset >= 1
        /\ \A i \in 1..(Len(dets) - 1) :
                /\ dets[i].byte_offset < dets[i + 1].byte_offset
                /\ dets[i].line <= dets[i + 1].line

\* Three detections: the first two on one line, the third on a later line,
\* the first at byte 1.
C6_Witness ==
    /\ scan_result.ran
    /\ Len(scan_result.detections) >= 3
    /\ scan_result.detections[1].byte_offset = 1
    /\ scan_result.detections[1].line = scan_result.detections[2].line
    /\ scan_result.detections[2].line < scan_result.detections[3].line

-----------------------------------------------------------------------------
(* Claims about the path filter, under SpecPath.  The pieces a path is     *)
(* written from hold no separator, so they are its components.             *)

AlwaysIgnoredNames == {node_modules, dot_git, dot_cargo, target, dot_vscode}
BundleNames        == {dist, build, out, dot_next, dot_nuxt}

Excluded(parts, scan_bundles) ==
    \/ \E i \in 1..Len(parts) : parts[i] \in AlwaysIgnoredNames
    \/ ~scan_bundles /\ \E i \in 1..Len(parts) : parts[i] \in BundleNames

\* The pieces with the first moved to the end, and with the first two swapped:
\* between them they generate every reordering.
Rotated(parts) == Tail(parts) \o <<Head(parts)>>
Swapped(parts) ==
    IF Len(parts) < 2 THEN parts
    ELSE <<parts[2], parts[1]>> \o SubSeq(parts, 3, Len(parts))

\* C4: should_ignore_path is true exactly when some component of the path,
\* split on '/' and '\', is one of the five always-ignored names, or
\* scan_bundles is false and some component is one of the five bundle names;
\* whole components only, whatever their order, and a path excluded with
\* scan_bundles = true is excluded with scan_bundles = false.
C4_PathFilter ==
    ignore_result.ran =>
        /\ ignore_result.value = Excluded(path_parts, path_flag)
        /\ should_ignore_path(PathOf(Rotated(path_parts), path_seps), path_flag)
             = ignore_result.value
        /\ should_ignore_path(PathOf(Swapped(path_parts), path_seps), path_flag)
             = ignore_result.value
        /\ (should_ignore_path(PathOf(path_parts, path_seps), TRUE)
             => should_ignore_path(PathOf(path_parts, path_seps), FALSE))

\* "src\my-dist-thing/x.js" is kept with scan_bundles false, although a
\* component contains "dist".
C4_Witness ==
    /\ ignore_result.ran
    /\ path_parts = <<src_dir, my_dist_thing, x_js>>
    /\ path_seps = <<"\\", "/">>
    /\ ~path_flag
    /\ ~ignore_result.value

-----------------------------------------------------------------------------
(* Claims about scan_files and main, under Spec.                           *)

\* The pattern parsed: scan_files got to its loop.
PatternParsed == config.parsed /\ glob_parses(config.pattern)

\* scan_files has returned Ok to main.
ScanReturned ==
    PatternParsed /\ pc \in {"report", "strict", "exited"}

\* The candidate paths: the Ok entries, in discovery order.
Candidates(g) == SelectSeq(g, LAMBDA e : e.ok)

\* The candidates scan_files has taken so far.
Processed == Candidates(SubSeq(glob_results, 1, next_entry - 1))

Filtered(e) == should_ignore_path(e.path, config.scan_bundles)

Count(q, P(_)) == Len(SelectSeq(q, P))

Wrote(stream, kind) == \E i \in 1..Len(stream) : stream[i].kind = kind

Rendered == Wrote(stdout, "json") \/ Wrote(stdout, "text")

\* C5 as stated: in a run whose pattern parsed, the exit code is 1 if any
\* detection exists, and 0 only with no detection and no strict-mode skip
\* failure.
C5_AsStated ==
    (pc = "exited" /\ PatternParsed) =>
        /\ (all_detections # <<>> => exit_code = 1)
        /\ (exit_code = 0 =>
                all_detections = <<>> /\ ~(config.fail_on_skip /\ skipped_count > 0))

\* C5, amended: in a run whose pattern parsed, the exit code is 2 if
\* fail_on_skip is set and a file was skipped, whether or not a detection
\* exists; otherwise it is 1 if any detection exists and 0 if none does.
C5_ExitCode ==
    (pc = "exited" /\ PatternParsed) =>
        exit_code = IF config.fail_on_skip /\ skipped_count > 0 THEN 2
                    ELSE IF all_detections # <<>> THEN 1
                    ELSE 0

\* A strict run that found detections and skipped a file ends with code 2.
C5_Witness ==
    /\ pc = "exited"
    /\ PatternParsed
    /\ config.fail_on_skip
    /\ skipped_count > 0
    /\ all_detections # <<>>
    /\ exit_code = 2

\* C7: scanned_count is the number of candidates the path filter let through,
\* readable or not; skipped_count is the number it excluded plus the number
\* let through whose read failed; and, once scan_files has returned, "no
\* files matched" was written exactly if both counters are 0.  It holds after
\* every candidate, so an excluded candidate leaves scanned_count as it was.
C7_Counters ==
    /\ (PatternParsed /\ pc \in {"loop", "report", "strict", "exited"}) =>
            /\ scanned_count = Count(Processed, LAMBDA e : ~Filtered(e))
            /\ skipped_count =
                   Count(Processed, LAMBDA e : Filtered(e))
                   + Count(Processed, LAMBDA e : ~Filtered(e) /\ ~e.readable)
    /\ ScanReturned =>
            /\ Processed = Candidates(glob_results)
            /\ (Wrote(stderr, "no files matched")
                    <=> (scanned_count = 0 /\ skipped_count = 0))
    /\ ~ScanReturned => ~Wrote(stderr, "no files matched")

\* scan_files has returned after an excluded candidate and an unreadable one:
\* one scanned, two skipped, no "no files matched".
C7_Witness ==
    /\ ScanReturned
    /\ \E i, j \in 1..Len(glob_results) :
            /\ glob_results[i].ok /\ Filtered(glob_results[i])
            /\ glob_results[j].ok /\ ~Filtered(glob_results[j])
            /\ ~glob_results[j].readable
    /\ scanned_count = 1
    /\ skipped_count = 2
    /\ ~Wrote(stderr, "no files matched")

\* C8: with fail_on_skip set and a candidate skipped, the loop still takes
\* every remaining entry, and the exit with code 2 for skips comes only after
\* scan_files has returned and the detections were printed.
C8_StrictAfterScan ==
    /\ (pc = "loop" /\ next_entry <= Len(glob_results)) => ENABLED ScanFilesEntry
    /\ (pc \in {"loop", "report", "strict"}) => ~Wrote(stderr, "files were skipped")
    /\ Wrote(stderr, "files were skipped") =>
            /\ pc = "exited" /\ exit_code = 2
            /\ next_entry = Len(glob_results) + 1
            /\ Rendered
    /\ (pc = "exited" /\ PatternParsed /\ config.fail_on_skip /\ skipped_count > 0) =>
            /\ Wrote(stderr, "files were skipped")
            /\ exit_code = 2

\* A strict run skipped its first candidate, went on to scan the second and
\* printed its detections before exiting with code 2.
C8_Witness ==
    /\ pc = "exited"
    /\ exit_code = 2
    /\ Wrote(stderr, "files were skipped")
    /\ Len(glob_results) = 2
    /\ glob_results[1].ok /\ Filtered(glob_results[1])
    /\ scan_calls = <<glob_results[2].path>>
    /\ all_detections # <<>>
    /\ Rendered

\* detect_invisible_characters over the candidates that were let through and
\* read, concatenated in discovery order.
RECURSIVE ConcatDetections(_)
ConcatDetections(q) ==
    IF q = <<>> THEN <<>>
    ELSE (IF ~Filtered(Head(q)) /\ Head(q).readable
          THEN detect_invisible_characters(Head(q).text, Head(q).path)
          ELSE <<>>)
         \o ConcatDetections(Tail(q))

\* C9: once the pattern has parsed, scan_files goes through every candidate
\* whatever fails on the way and returns Ok, and its detections are those of
\* the candidates let through and read, concatenated in discovery order; a
\* malformed pattern alone makes it return an error, with no candidate
\* processed, and main exits with code 2.
C9_Aggregate ==
    /\ (PatternParsed /\ pc = "loop") =>
            /\ ENABLED (ScanFilesEntry \/ ScanFilesReturn)
            /\ all_detections = ConcatDetections(Processed)
    /\ ScanReturned =>
            /\ next_entry = Len(glob_results) + 1
            /\ all_detections = ConcatDetections(Candidates(glob_results))
            /\ scan_calls =
                   [i \in 1..Count(Candidates(glob_results),
                                   LAMBDA e : ~Filtered(e) /\ e.readable) |->
                       SelectSeq(Candidates(glob_results),
                                 LAMBDA e : ~Filtered(e) /\ e.readable)[i].path]
            /\ ~Wrote(stderr, "error scanning files")
    /\ (config.parsed /\ ~glob_parses(config.pattern) /\ pc = "exited") =>
            /\ exit_code = 2
            /\ Wrote(stderr, "error scanning files")
            /\ next_entry = 1 /\ scan_calls = <<>> /\ all_detections = <<>>
            /\ scanned_count = 0 /\ skipped_count = 0
    /\ Wrote(stderr, "error scanning files") => ~glob_parses(config.pattern)

\* Two candidates were let through and read, and each gave two detections.
C9_Witness ==
    /\ ScanReturned
    /\ Len(scan_calls) = 2
    /\ Len(all_detections) = 4

\* C10 as stated: every candidate is counted in exactly one counter, so the
\* two add up to the candidates processed, and scanned_count is the number of
\* files handed to detect_invisible_characters.
C10_AsStated ==
    (PatternParsed /\ pc \in {"loop", "report", "strict", "exited"}) =>
        /\ scanned_count + skipped_count = Len(Processed)
        /\ scanned_count = Len(scan_calls)

\* C10, amended: every candidate is counted in at least one counter, and a
\* candidate the filter let through whose read failed is counted in both: the
\* two add up to the candidates processed plus the failed reads, and
\* scanned_count is the number of files handed to
\* detect_invisible_characters plus the failed reads.
C10_Counted ==
    (PatternParsed /\ pc \in {"loop", "report", "strict", "exited"}) =>
        LET failed == Count(Processed, LAMBDA e : ~Filtered(e) /\ ~e.readable) IN
        /\ scanned_count + skipped_count = Len(Processed) + failed
        /\ scanned_count = Len(scan_calls) + failed
        /\ scanned_count + skipped_count >= Len(Processed)

\* A candidate that was let through and could not be read, beside one that
\* was scanned: two scanned, one skipped, one handed to the scanner.
C10_Witness ==
    /\ ScanReturned
    /\ Len(Processed) = 2
    /\ scanned_count = 2
    /\ skipped_count = 1
    /\ Len(scan_calls) = 1

-----------------------------------------------------------------------------
(* Claims about the classifier, under SpecClassify.                        *)

\* The three ranges as the claim gives them, each with both of its stated
\* endpoints.
PrivateUseAsStated(c) ==
    \/ c \in \hE000..\hF8FF
    \/ c \in \hF0000..\hFFFD \/ c = \hF0000 \/ c = \hFFFD
    \/ c \in \h100000..\h10FFFD

\* C3: every code of [0xE000,0xF8FF], [0xF0000,0xFFFD] and
\* [0x100000,0x10FFFD], the six stated endpoints included, is classified as
\* Private Use Area, and 0xF900 and 0xDFFF are not classified by that rule.
C3_PrivateUse ==
    /\ (cls.predicates /\ PrivateUseAsStated(code)) => cls.pua
    /\ (cls.chain /\ PrivateUseAsStated(code)) =>
            cls.class.flagged /\ cls.class.name = "PRIVATE USE AREA"
    /\ (cls.predicates /\ code \in {\hF900, \hDFFF}) => ~cls.pua

====
